---- MODULE Spec2Model ----
(***************************************************************************)
(* go-sample-app: the synthetic metric generator (collection/             *)
(* random_metrics), the request based metric collector (collection/       *)
(* request_metrics.go), the four endpoint handlers (collection/           *)
(* http_traces.go) and the wiring in main().                               *)
(***************************************************************************)
EXTENDS Integers, Sequences, FiniteSets, TLC

\* ---------------------------------------------------------------- bounds
MaxUpperBound == 10    \* largest ThreadsActiveUpperBound drawn for the configuration
MaxTicks == 12         \* iterations of the background loop that are explored
NumHandlers == 2       \* concurrent request-handling contexts
MaxRequests == 2       \* requests accepted by the server
MaxCollects == 2       \* collection cycles run by the SDK reader

\* ------------------------------------------------------ program constants
BytesSentMax == 1024
LatencyMax == 512

Handlers == 1..NumHandlers

VARIABLES
  cfg,             \* Config handed to the collectors
  mainPc,          \* position of main()
  failed,          \* instruments whose registration returned an error
  logs,            \* messages written with slog.Error / slog.ErrorContext
  s3Client,        \* the *s3Client main() got from NewS3Client: "ok" or "nil"
  aborted,         \* the process has died (unrecovered panic)
  loopPc,          \* position of the goroutine of RegisterMetricsClient
  ticks,           \* completed iterations of that goroutine
  clock,           \* seconds slept by that goroutine
  timeAlive,       \* sum held by the timeAlive counter instrument
  timeAliveCalls,  \* calls of updateTimeAlive
  threadCount,     \* package variable threadCount
  threadsBool,     \* package variable threadsBool
  threadsActive,   \* sum held by the threadsActive up-down counter instrument
  threadsCalls,    \* calls of updateThreadsActive
  counter,         \* rqmc.counter
  addCalls,        \* calls of AddApiRequest that have returned
  totalBytesSent,  \* sum held by the totalBytesSent counter instrument
  latencyRecords,  \* number of samples held by the latencyTime histogram
  observation,     \* the measurement most recently handed to an instrument
  hpc,             \* position of each request-handling context
  hAdds,           \* AddApiRequest calls made for the request being served
  hBytes,          \* UpdateTotalBytesSent calls made for the request being served
  hLats,           \* UpdateLatencyTime calls made for the request being served
  started,         \* requests dispatched by the router
  completed,       \* handlers that returned normally
  panics,          \* handlers that ended in a panic recovered by net/http
  responses,       \* trace-id bodies written by writeResponse
  lastDo,          \* what client.Do returned to the request dispatched last
  cbPc,            \* position of the SDK's collection cycle
  collects,        \* collection cycles started
  readLo,          \* rqmc.counter when the totalApiRequests callback was entered
  readVal,         \* value returned by GetApiRequest in this cycle
  prevObs,         \* totalApiRequests value observed in the cycle before the last
  lastObs,         \* totalApiRequests value observed in the last cycle
  nObs             \* totalApiRequests observations made

startVars == <<mainPc, failed, logs, s3Client>>
genVars == <<loopPc, ticks, clock, timeAlive, timeAliveCalls, threadCount,
             threadsBool, threadsActive, threadsCalls>>
reqVars == <<counter, addCalls, totalBytesSent, latencyRecords, hpc, hAdds, hBytes,
             hLats, started, completed, panics, responses, lastDo>>
obsVars == <<cbPc, collects, readLo, readVal, prevObs, lastObs, nObs>>
vars == <<cfg, aborted, observation, startVars, genVars, reqVars, obsVars>>

\* ---------------------------------------------------------------- helpers
\* The int64 values of the program (threadCount, rqmc.counter, the sums of the
\* instruments) stay below 2^20 within the bounds above, far from the width at
\* which Go's arithmetic wraps, so they are written as plain integers.

\* rand.Intn with the upper end included.
IntnInclusive(n) == {v \in {0, n - 1, n} : 0 <= v /\ v <= n}

\* rand.Intn(n): a value of [0, n); panics when n <= 0.  The values explored
\* are the two ends of the range.
Intn(n) == {v \in {0, n - 1} : 0 <= v /\ v < n}

IntnPanics(n) == n <= 0

NoObservation == [inst |-> "none", value |-> 0]

\* ------------------------------------------- synthetic metric generator
Running == ~aborted

\* rmc.timeAlive.Add(ctx, cfg.TimeAliveIncrementer*1000, ...)
updateTimeAliveByInterval ==
  /\ Running
  /\ loopPc = "updateTimeAlive"
  /\ timeAlive' = timeAlive + cfg.TimeInterval * 1000
  /\ timeAliveCalls' = timeAliveCalls + 1
  /\ loopPc' = "updateThreadsActive"
  /\ UNCHANGED <<cfg, aborted, observation, startVars, reqVars, obsVars,
                 ticks, clock, threadCount, threadsBool, threadsActive, threadsCalls>>

updateTimeAlive ==
  /\ Running
  /\ loopPc = "updateTimeAlive"
  /\ timeAlive' = timeAlive + cfg.TimeAliveIncrementer * 1000
  /\ timeAliveCalls' = timeAliveCalls + 1
  /\ loopPc' = "updateThreadsActive"
  /\ UNCHANGED <<cfg, aborted, observation, startVars, reqVars, obsVars,
                 ticks, clock, threadCount, threadsBool, threadsActive, threadsCalls>>

\* updateThreadsActive with the upper test written <= instead of <.
updateThreadsActiveInclusive ==
  /\ Running
  /\ loopPc = "updateThreadsActive"
  /\ IF threadsBool
       THEN IF threadCount <= cfg.ThreadsActiveUpperBound
              THEN /\ threadsActive' = threadsActive + 1
                   /\ threadCount' = threadCount + 1
                   /\ UNCHANGED threadsBool
              ELSE /\ threadsBool' = FALSE
                   /\ threadCount' = threadCount - 1
                   /\ UNCHANGED threadsActive
       ELSE IF threadCount > 0
              THEN /\ threadsActive' = threadsActive - 1
                   /\ threadCount' = threadCount - 1
                   /\ UNCHANGED threadsBool
              ELSE /\ threadsBool' = TRUE
                   /\ threadCount' = threadCount + 1
                   /\ UNCHANGED threadsActive
  /\ threadsCalls' = threadsCalls + 1
  /\ loopPc' = "Sleep"
  /\ UNCHANGED <<cfg, aborted, observation, startVars, reqVars, obsVars,
                 ticks, clock, timeAlive, timeAliveCalls>>

\* updateThreadsActive turning one step early (test written against
\* upperBound - 1).
updateThreadsActiveEarlyTurn ==
  /\ Running
  /\ loopPc = "updateThreadsActive"
  /\ IF threadsBool
       THEN IF threadCount < cfg.ThreadsActiveUpperBound - 1
              THEN /\ threadsActive' = threadsActive + 1
                   /\ threadCount' = threadCount + 1
                   /\ UNCHANGED threadsBool
              ELSE /\ threadsBool' = FALSE
                   /\ threadCount' = threadCount - 1
                   /\ UNCHANGED threadsActive
       ELSE IF threadCount > 0
              THEN /\ threadsActive' = threadsActive - 1
                   /\ threadCount' = threadCount - 1
                   /\ UNCHANGED threadsBool
              ELSE /\ threadsBool' = TRUE
                   /\ threadCount' = threadCount + 1
                   /\ UNCHANGED threadsActive
  /\ threadsCalls' = threadsCalls + 1
  /\ loopPc' = "Sleep"
  /\ UNCHANGED <<cfg, aborted, observation, startVars, reqVars, obsVars,
                 ticks, clock, timeAlive, timeAliveCalls>>

updateThreadsActive ==
  /\ Running
  /\ loopPc = "updateThreadsActive"
  /\ IF threadsBool
       THEN IF threadCount < cfg.ThreadsActiveUpperBound
              THEN /\ threadsActive' = threadsActive + 1
                   /\ threadCount' = threadCount + 1
                   /\ UNCHANGED threadsBool
              ELSE /\ threadsBool' = FALSE
                   /\ threadCount' = threadCount - 1
                   /\ UNCHANGED threadsActive
       ELSE IF threadCount > 0
              THEN /\ threadsActive' = threadsActive - 1
                   /\ threadCount' = threadCount - 1
                   /\ UNCHANGED threadsBool
              ELSE /\ threadsBool' = TRUE
                   /\ threadCount' = threadCount + 1
                   /\ UNCHANGED threadsActive
  /\ threadsCalls' = threadsCalls + 1
  /\ loopPc' = "Sleep"
  /\ UNCHANGED <<cfg, aborted, observation, startVars, reqVars, obsVars,
                 ticks, clock, timeAlive, timeAliveCalls>>

\* time.Sleep(time.Second * time.Duration(cfg.TimeInterval)), then the next
\* iteration of the for loop.
Sleep ==
  /\ Running
  /\ loopPc = "Sleep"
  /\ ticks < MaxTicks
  /\ clock' = clock + cfg.TimeInterval
  /\ ticks' = ticks + 1
  /\ loopPc' = "updateTimeAlive"
  /\ UNCHANGED <<cfg, aborted, observation, startVars, reqVars, obsVars,
                 timeAlive, timeAliveCalls, threadCount, threadsBool,
                 threadsActive, threadsCalls>>

GeneratorNext == updateTimeAlive \/ updateThreadsActive \/ Sleep

\* ------------------------------------------------ order of main()
MainOrder == <<"StartClient", "registerHeapSize", "registerThreadsActive",
               "registerTimeAlive", "registerCpuUsage", "RegisterMetricsClient",
               "updateCpuUsage", "updateTotalHeapSize", "registerTotalBytesSent",
               "registerTotalRequests", "registerLatencyTime",
               "StartTotalRequestCallback", "LoadDefaultConfig", "NewS3Client",
               "OpenDatabase", "ListenAndServe", "serving">>

MainPos(pc) == CHOOSE i \in 1..Len(MainOrder) : MainOrder[i] = pc

\* main() has gone past the step named pc.
Past(pc) == MainPos(mainPc) > MainPos(pc)

Serving == Running /\ mainPc = "serving"

\* ------------------------------------------- request based metric collector
AtomicAddInt64Lost(addr, delta) == addr

AtomicAddInt64Negated(addr, delta) == addr - delta

\* atomic.AddInt64(&rqmc.counter, 1): one indivisible read-modify-write.
AtomicAddInt64(addr, delta) == addr + delta

\* atomic.LoadInt64(&rqmc.counter)
AtomicLoadInt64(addr) == addr

Idle(h) == hpc[h] = "idle"

AllIdle == \A h \in Handlers : Idle(h)

\* The router hands a request to context h, which enters the handler.
Enter(h, next) ==
  /\ hpc' = [hpc EXCEPT ![h] = next]
  /\ hAdds' = [hAdds EXCEPT ![h] = 0]
  /\ hBytes' = [hBytes EXCEPT ![h] = 0]
  /\ hLats' = [hLats EXCEPT ![h] = 0]
  /\ started' = started + 1
  /\ UNCHANGED panics

\* The handler dereferences a nil pointer; net/http recovers the panic and
\* drops the connection, the context is free again.
Panic(h) ==
  /\ panics' = panics + 1
  /\ started' = started + 1
  /\ UNCHANGED <<hpc, hAdds, hBytes, hLats>>

Accepting(h) == Serving /\ Idle(h) /\ started < MaxRequests

ErrAmazon == "Error making request to amazon.com"

AwsSdkCall(h) ==
  /\ Accepting(h)
  /\ IF s3Client = "nil"
       THEN Panic(h)
       ELSE Enter(h, "AddApiRequest")
  /\ lastDo' = "none"
  /\ UNCHANGED <<cfg, aborted, observation, startVars, genVars, obsVars,
                 counter, addCalls, totalBytesSent, latencyRecords, completed, responses>>

\* What res, err := client.Do(req) can return: a response, an error with a nil
\* response, or (when the client's redirect policy fails) an error together
\* with the response.
ClientDo == {"res", "nil+err", "res+err"}

\* OutgoingHttpCall with the metric calls placed before defer res.Body.Close().
OutgoingHttpCallCountsFirst(h) ==
  /\ Accepting(h)
  /\ \E do \in ClientDo :
       /\ lastDo' = do
       /\ IF do = "nil+err"
            THEN /\ logs' = logs \cup {ErrAmazon}
                 /\ counter' = AtomicAddInt64(counter, 1)
                 /\ addCalls' = addCalls + 1
                 /\ Panic(h)
            ELSE /\ Enter(h, "UpdateTotalBytesSent")
                 /\ counter' = AtomicAddInt64(counter, 1)
                 /\ addCalls' = addCalls + 1
                 /\ logs' = IF do = "res+err" THEN logs \cup {ErrAmazon} ELSE logs
  /\ UNCHANGED <<cfg, aborted, observation, mainPc, failed, s3Client, genVars,
                 obsVars, totalBytesSent, latencyRecords, completed, responses>>

\* client.Do(req); an error is logged and the handler goes on to
\* defer res.Body.Close(), which panics when res is nil.
OutgoingHttpCall(h) ==
  /\ Accepting(h)
  /\ \E do \in ClientDo :
       /\ lastDo' = do
       /\ IF do = "nil+err"
            THEN /\ logs' = logs \cup {ErrAmazon}
                 /\ Panic(h)
            ELSE /\ Enter(h, "AddApiRequest")
                 /\ logs' = IF do = "res+err" THEN logs \cup {ErrAmazon} ELSE logs
  /\ UNCHANGED <<cfg, aborted, observation, mainPc, failed, s3Client, genVars,
                 obsVars, counter, addCalls, totalBytesSent, latencyRecords, completed,
                 responses>>

\* The ports invoke() is called for, in order.
invokedPorts(ports) == {i \in 1..Len(ports) : ports[i] # ""}

\* With an empty port list the leaf request to aws.amazon.com, handled as in
\* OutgoingHttpCall; otherwise invoke() for each port, whose client.Do errors
\* are logged and whose defer res.Body.Close() panics on a nil response.
OutgoingSampleApp(h) ==
  /\ Accepting(h)
  /\ LET count == Len(cfg.SampleAppPorts) IN
       IF count = 0
         THEN \E do \in ClientDo :
                /\ lastDo' = do
                /\ IF do = "nil+err"
                     THEN /\ logs' = logs \cup {ErrAmazon}
                          /\ Panic(h)
                     ELSE /\ Enter(h, "AddApiRequest")
                          /\ logs' = IF do = "res+err"
                                       THEN logs \cup {ErrAmazon} ELSE logs
         ELSE \E errs \in SUBSET invokedPorts(cfg.SampleAppPorts) :
                \E nils \in SUBSET errs :
                  /\ lastDo' = "none"
                  /\ logs' = IF errs # {} THEN logs \cup {ErrAmazon} ELSE logs
                  /\ IF nils # {}
                       THEN Panic(h)
                       ELSE Enter(h, "writeResponse")
  /\ UNCHANGED <<cfg, aborted, observation, mainPc, failed, s3Client, genVars,
                 obsVars, counter, addCalls, totalBytesSent, latencyRecords, completed,
                 responses>>

\* Ten SELECT 1 queries whose errors are only logged, then the same outbound
\* request as OutgoingHttpCall.
OutgoingPsqlCall(h) ==
  /\ Accepting(h)
  /\ \E sqlErr \in BOOLEAN, do \in ClientDo :
       /\ lastDo' = do
       /\ IF do = "nil+err"
            THEN /\ logs' = logs \cup {ErrAmazon}
                 /\ Panic(h)
            ELSE /\ Enter(h, "AddApiRequest")
                 /\ logs' = IF sqlErr \/ do = "res+err"
                              THEN logs \cup {ErrAmazon} ELSE logs
  /\ UNCHANGED <<cfg, aborted, observation, mainPc, failed, s3Client, genVars,
                 obsVars, counter, addCalls, totalBytesSent, latencyRecords, completed,
                 responses>>

AddApiRequest(h) ==
  /\ Running
  /\ hpc[h] = "AddApiRequest"
  /\ counter' = AtomicAddInt64(counter, 1)
  /\ addCalls' = addCalls + 1
  /\ hAdds' = [hAdds EXCEPT ![h] = @ + 1]
  /\ hpc' = [hpc EXCEPT ![h] = "UpdateTotalBytesSent"]
  /\ UNCHANGED <<cfg, aborted, observation, startVars, genVars, obsVars,
                 totalBytesSent, latencyRecords, hBytes, hLats, started,
                 completed, panics, responses, lastDo>>

UpdateTotalBytesSent(h) ==
  /\ Running
  /\ hpc[h] = "UpdateTotalBytesSent"
  /\ LET min == 0
         max == BytesSentMax
     IN \E r \in Intn(max - min) :
          /\ totalBytesSent' = totalBytesSent + (r + min)
          /\ observation' = [inst |-> "totalBytesSent", value |-> r + min]
  /\ hBytes' = [hBytes EXCEPT ![h] = @ + 1]
  /\ hpc' = [hpc EXCEPT ![h] = "UpdateLatencyTime"]
  /\ UNCHANGED <<cfg, aborted, startVars, genVars, obsVars, counter, addCalls,
                 latencyRecords, hAdds, hLats, started, completed, panics,
                 responses, lastDo>>

UpdateLatencyTime(h) ==
  /\ Running
  /\ hpc[h] = "UpdateLatencyTime"
  /\ LET min == 0
         max == LatencyMax
     IN \E r \in Intn(max - min) :
          observation' = [inst |-> "latencyTime", value |-> r + min]
  /\ latencyRecords' = latencyRecords + 1
  /\ hLats' = [hLats EXCEPT ![h] = @ + 1]
  /\ hpc' = [hpc EXCEPT ![h] = "writeResponse"]
  /\ UNCHANGED <<cfg, aborted, startVars, genVars, obsVars, counter, addCalls,
                 totalBytesSent, hAdds, hBytes, started, completed, panics,
                 responses, lastDo>>

\* The trace id is written and the handler returns.
writeResponse(h) ==
  /\ Running
  /\ hpc[h] = "writeResponse"
  /\ responses' = responses + 1
  /\ completed' = completed + 1
  /\ hpc' = [hpc EXCEPT ![h] = "idle"]
  /\ hAdds' = [hAdds EXCEPT ![h] = 0]
  /\ hBytes' = [hBytes EXCEPT ![h] = 0]
  /\ hLats' = [hLats EXCEPT ![h] = 0]
  /\ UNCHANGED <<cfg, aborted, observation, startVars, genVars, obsVars,
                 counter, addCalls, totalBytesSent, latencyRecords, started, panics, lastDo>>

HandlerNext ==
  \E h \in Handlers :
    \/ AwsSdkCall(h)
    \/ OutgoingHttpCall(h)
    \/ OutgoingSampleApp(h)
    \/ OutgoingPsqlCall(h)
    \/ AddApiRequest(h)
    \/ UpdateTotalBytesSent(h)
    \/ UpdateLatencyTime(h)
    \/ writeResponse(h)

\* --------------------------------------------- the SDK's collection cycle
\* The reader starts a cycle: it runs the callbacks registered so far, in the
\* order of their registration.
Collect ==
  /\ Running
  /\ Past("updateCpuUsage")
  /\ cbPc = "idle"
  /\ collects < MaxCollects
  /\ collects' = collects + 1
  /\ cbPc' = "cpuUsage"
  /\ UNCHANGED <<cfg, aborted, observation, startVars, genVars, reqVars,
                 readLo, readVal, prevObs, lastObs, nObs>>

\* The closure registered by updateCpuUsage.
cpuUsageCallback ==
  /\ Running
  /\ cbPc = "cpuUsage"
  /\ LET min == 0
         max == cfg.CpuUsageUpperBound
     IN IF IntnPanics(max - min)
          THEN /\ aborted' = TRUE
               /\ UNCHANGED <<observation, cbPc>>
          ELSE /\ \E r \in Intn(max - min) :
                    observation' = [inst |-> "cpuUsage", value |-> r + min]
               /\ cbPc' = "totalHeapSize"
               /\ UNCHANGED aborted
  /\ UNCHANGED <<cfg, startVars, genVars, reqVars, collects, readLo, readVal,
                 prevObs, lastObs, nObs>>

\* The closure registered by updateTotalHeapSize.
totalHeapSizeCallback ==
  /\ Running
  /\ cbPc = "totalHeapSize"
  /\ IF ~Past("updateTotalHeapSize")
       THEN /\ cbPc' = "idle"
            /\ UNCHANGED <<aborted, observation>>
       ELSE LET min == 0
                max == cfg.TotalHeapSizeUpperBound
            IN IF IntnPanics(max - min)
                 THEN /\ aborted' = TRUE
                      /\ UNCHANGED <<observation, cbPc>>
                 ELSE /\ \E r \in Intn(max - min) :
                           observation' = [inst |-> "totalHeapSize", value |-> r + min]
                      /\ cbPc' = "totalApiRequests"
                      /\ UNCHANGED aborted
  /\ UNCHANGED <<cfg, startVars, genVars, reqVars, collects, readLo, readVal,
                 prevObs, lastObs, nObs>>

\* The closure registered by StartTotalRequestCallback is entered.
totalApiRequestsCallback ==
  /\ Running
  /\ cbPc = "totalApiRequests"
  /\ IF ~Past("StartTotalRequestCallback")
       THEN /\ cbPc' = "idle"
            /\ UNCHANGED readLo
       ELSE /\ cbPc' = "GetApiRequest"
            /\ readLo' = counter
  /\ UNCHANGED <<cfg, aborted, observation, startVars, genVars, reqVars,
                 collects, readVal, prevObs, lastObs, nObs>>

GetApiRequest ==
  /\ Running
  /\ cbPc = "GetApiRequest"
  /\ readVal' = AtomicLoadInt64(counter)
  /\ cbPc' = "ObserveInt64"
  /\ UNCHANGED <<cfg, aborted, observation, startVars, genVars, reqVars,
                 collects, readLo, prevObs, lastObs, nObs>>

\* o.ObserveInt64(rqmc.totalApiRequests, int64(rqmc.GetApiRequest()), ...)
ObserveInt64 ==
  /\ Running
  /\ cbPc = "ObserveInt64"
  /\ prevObs' = lastObs
  /\ lastObs' = readVal
  /\ nObs' = nObs + 1
  /\ observation' = [inst |-> "totalApiRequests", value |-> readVal]
  /\ cbPc' = "idle"
  /\ readLo' = 0
  /\ readVal' = 0
  /\ UNCHANGED <<cfg, aborted, startVars, genVars, reqVars, collects>>

CollectNext ==
  \/ Collect
  \/ cpuUsageCallback
  \/ totalHeapSizeCallback
  \/ totalApiRequestsCallback
  \/ GetApiRequest
  \/ ObserveInt64

\* ------------------------------------------------------------ main()
\* One of the register functions: the error, if any, is logged with
\* slog.Error, the returned instrument is stored and the function returns.
Register(step, inst, msg, next) ==
  /\ Running
  /\ mainPc = step
  /\ \E err \in BOOLEAN :
       IF err
         THEN /\ failed' = failed \cup {inst}
              /\ logs' = logs \cup {msg}
         ELSE UNCHANGED <<failed, logs>>
  /\ mainPc' = next
  /\ UNCHANGED <<cfg, aborted, observation, s3Client, genVars, reqVars, obsVars>>

\* The same with log.Fatal in place of slog.Error.
RegisterFatal(step, inst, msg, next) ==
  /\ Running
  /\ mainPc = step
  /\ \E err \in BOOLEAN :
       IF err
         THEN /\ failed' = failed \cup {inst}
              /\ logs' = logs \cup {msg}
              /\ aborted' = TRUE
              /\ UNCHANGED mainPc
         ELSE /\ mainPc' = next
              /\ UNCHANGED <<failed, logs, aborted>>
  /\ UNCHANGED <<cfg, observation, s3Client, genVars, reqVars, obsVars>>

\* A step of main() that ends the process when it fails (log.Fatal, panic).
FatalStep(step, next) ==
  /\ Running
  /\ mainPc = step
  /\ \E err \in BOOLEAN :
       IF err
         THEN /\ aborted' = TRUE
              /\ UNCHANGED mainPc
         ELSE /\ mainPc' = next
              /\ UNCHANGED aborted
  /\ UNCHANGED <<cfg, observation, failed, logs, s3Client, genVars, reqVars,
                 obsVars>>

ErrRegistering(name) == "Error registering " \o name \o " metric"

StartClient == FatalStep("StartClient", "registerHeapSize")

registerHeapSize ==
  Register("registerHeapSize", "totalHeapSize", ErrRegistering("HeapSize"),
           "registerThreadsActive")

registerThreadsActiveFatal ==
  RegisterFatal("registerThreadsActive", "threadsActive",
                ErrRegistering("ThreadsActive"), "registerTimeAlive")

registerThreadsActive ==
  Register("registerThreadsActive", "threadsActive",
           ErrRegistering("ThreadsActive"), "registerTimeAlive")

registerTimeAlive ==
  Register("registerTimeAlive", "timeAlive", ErrRegistering("TimeAlive"),
           "registerCpuUsage")

registerCpuUsage ==
  Register("registerCpuUsage", "cpuUsage", ErrRegistering("CpuUsage"),
           "RegisterMetricsClient")

\* go func() { for { ... } }(): the background loop starts.
RegisterMetricsClient ==
  /\ Running
  /\ mainPc = "RegisterMetricsClient"
  /\ loopPc' = "updateTimeAlive"
  /\ mainPc' = "updateCpuUsage"
  /\ UNCHANGED <<cfg, aborted, observation, failed, logs, s3Client, reqVars,
                 obsVars, ticks, clock, timeAlive, timeAliveCalls, threadCount,
                 threadsBool, threadsActive, threadsCalls>>

\* rmc.meter.RegisterCallback(...); panic(err) when it fails.
updateCpuUsage == FatalStep("updateCpuUsage", "updateTotalHeapSize")

updateTotalHeapSize == FatalStep("updateTotalHeapSize", "registerTotalBytesSent")

registerTotalBytesSent ==
  Register("registerTotalBytesSent", "totalBytesSent",
           ErrRegistering("TotalBytesSent"), "registerTotalRequests")

registerTotalRequests ==
  Register("registerTotalRequests", "totalApiRequests",
           ErrRegistering("TotalApiRequests"), "registerLatencyTime")

registerLatencyTime ==
  Register("registerLatencyTime", "latencyTime", ErrRegistering("LatencyTime"),
           "StartTotalRequestCallback")

StartTotalRequestCallback == FatalStep("StartTotalRequestCallback", "LoadDefaultConfig")

\* config.LoadDefaultConfig(ctx); panic when it fails.
LoadDefaultConfig == FatalStep("LoadDefaultConfig", "NewS3Client")

\* collection.NewS3Client(): the error is logged and s3Client stays nil.
NewS3Client ==
  /\ Running
  /\ mainPc = "NewS3Client"
  /\ \E err \in BOOLEAN :
       IF err
         THEN /\ s3Client' = "nil"
              /\ logs' = logs \cup {"Error creating S3 client"}
         ELSE /\ s3Client' = "ok"
              /\ UNCHANGED logs
  /\ mainPc' = "OpenDatabase"
  /\ UNCHANGED <<cfg, aborted, observation, failed, genVars, reqVars, obsVars>>

\* otelsql.Open and conn.Ping; log.Fatal when either fails.
OpenDatabase == FatalStep("OpenDatabase", "ListenAndServe")

ListenAndServe ==
  /\ Running
  /\ mainPc = "ListenAndServe"
  /\ mainPc' = "serving"
  /\ UNCHANGED <<cfg, aborted, observation, failed, logs, s3Client, genVars,
                 reqVars, obsVars>>

StartupNext ==
  \/ StartClient
  \/ registerHeapSize
  \/ registerThreadsActive
  \/ registerTimeAlive
  \/ registerCpuUsage
  \/ RegisterMetricsClient
  \/ updateCpuUsage
  \/ updateTotalHeapSize
  \/ registerTotalBytesSent
  \/ registerTotalRequests
  \/ registerLatencyTime
  \/ StartTotalRequestCallback
  \/ LoadDefaultConfig
  \/ NewS3Client
  \/ OpenDatabase
  \/ ListenAndServe

\* ------------------------------------------------------- configurations
DefaultConfig ==
  [TimeInterval |-> 1, TimeAliveIncrementer |-> 1, ThreadsActiveUpperBound |-> 10,
   CpuUsageUpperBound |-> 100, TotalHeapSizeUpperBound |-> 100,
   SampleAppPorts |-> <<>>]

GeneratorConfigs ==
  {[DefaultConfig EXCEPT !.ThreadsActiveUpperBound = u,
                         !.TimeAliveIncrementer = i,
                         !.TimeInterval = t] :
     u \in 0..MaxUpperBound, i \in {1, 2, 5}, t \in {1, 2}}

\* A port list, a CpuUsageUpperBound, a TotalHeapSizeUpperBound and the result
\* of NewS3Client: every port list, every bound and both results occur; the
\* bounds of 0 make rand.Intn panic.
RequestChoices ==
  {<<(<<>>), 100, 100, "ok">>, <<(<<"8081">>), 0, 100, "ok">>,
   <<(<<"", "8081">>), 1, 0, "nil">>}

RequestConfig(c) ==
  [DefaultConfig EXCEPT !.SampleAppPorts = c[1],
                        !.CpuUsageUpperBound = c[2],
                        !.TotalHeapSizeUpperBound = c[3]]

RequestConfigs == {RequestConfig(c) : c \in RequestChoices}

MainConfigs ==
  {DefaultConfig,
   [DefaultConfig EXCEPT !.SampleAppPorts = <<"8081">>,
                         !.ThreadsActiveUpperBound = 0,
                         !.TotalHeapSizeUpperBound = 0]}

\* ------------------------------------------------------- specifications
InitState ==
  /\ failed = {}
  /\ logs = {}
  /\ aborted = FALSE
  /\ ticks = 0
  /\ clock = 0
  /\ timeAlive = 0
  /\ timeAliveCalls = 0
  /\ threadCount = 0
  /\ threadsBool = TRUE
  /\ threadsActive = 0
  /\ threadsCalls = 0
  /\ counter = 0
  /\ addCalls = 0
  /\ totalBytesSent = 0
  /\ latencyRecords = 0
  /\ observation = NoObservation
  /\ hpc = [h \in Handlers |-> "idle"]
  /\ hAdds = [h \in Handlers |-> 0]
  /\ hBytes = [h \in Handlers |-> 0]
  /\ hLats = [h \in Handlers |-> 0]
  /\ started = 0
  /\ completed = 0
  /\ panics = 0
  /\ responses = 0
  /\ lastDo = "none"
  /\ cbPc = "idle"
  /\ collects = 0
  /\ readLo = 0
  /\ readVal = 0
  /\ prevObs = 0
  /\ lastObs = 0
  /\ nObs = 0

\* The process as main() is entered.  Spec composes main(), the background
\* loop, the request handlers and the collection cycle; the properties below
\* are stated for the three parts, each started from the state main() leaves.
Init ==
  /\ InitState
  /\ cfg \in MainConfigs
  /\ mainPc = "StartClient"
  /\ loopPc = "off"
  /\ s3Client = "nil"

Next == StartupNext \/ GeneratorNext \/ HandlerNext \/ CollectNext

Spec == Init /\ [][Next]_vars

\* The background loop of a process whose main() has reached ListenAndServe.
InitGenerator ==
  /\ InitState
  /\ cfg \in GeneratorConfigs
  /\ mainPc = "serving"
  /\ loopPc = "updateTimeAlive"
  /\ s3Client = "ok"

SpecGenerator == InitGenerator /\ [][GeneratorNext]_vars

\* The request handlers and the collection cycle of a serving process.
InitRequests ==
  /\ InitState
  /\ \E c \in RequestChoices :
       /\ cfg = RequestConfig(c)
       /\ s3Client = c[4]
  /\ mainPc = "serving"
  /\ loopPc = "updateTimeAlive"

RequestsNext == HandlerNext \/ CollectNext

SpecRequests == InitRequests /\ [][RequestsNext]_vars

\* main() alone, up to ListenAndServe.
SpecStartup == Init /\ [][StartupNext]_vars

\* ============================================================ properties
NoAddInProgress == \A h \in Handlers : hpc[h] # "AddApiRequest"

\* C1: once every AddApiRequest call issued by the request-handling contexts
\* has returned, GetApiRequest returns exactly the number of calls made,
\* whatever the interleaving: no increment is lost.
C1_NoLostIncrement ==
  NoAddInProgress => AtomicLoadInt64(counter) = addCalls

\* Two contexts are inside their handlers at once, both past AddApiRequest.
C1_Witness ==
  /\ \A h \in Handlers : h <= 2 => hAdds[h] = 1
  /\ NoAddInProgress
  /\ counter = 2

\* C2: after every call of updateThreadsActive the oscillator value lies in
\* [0, upperBound], for any upperBound >= 0 (0 included).
C2_OscillatorInRange ==
  threadsCalls > 0 =>
    (0 <= threadCount /\ threadCount <= cfg.ThreadsActiveUpperBound)

\* C3: a handler that runs to completion has incremented the request counter
\* once, added one bytes-sent delta and recorded one latency sample, for every
\* configuration; so with no request in flight the counter equals the number
\* of completed requests.
C3_EveryRequestCounted ==
  /\ \A h \in Handlers :
       hpc[h] = "writeResponse" => (hAdds[h] = 1 /\ hBytes[h] = 1 /\ hLats[h] = 1)
  /\ AllIdle => counter = completed

\* C4: on every call of updateThreadsActive the delta added to the
\* threadsActive instrument equals the change of threadCount; at the upper
\* turning point the call flips to descending, decrements and emits -1, at the
\* lower one it flips to ascending, increments and emits +1.
C4_DeltaMatchesCount ==
  [][threadsCalls' = threadsCalls + 1 =>
       /\ threadsActive' - threadsActive = threadCount' - threadCount
       /\ (threadsBool /\ threadCount = cfg.ThreadsActiveUpperBound) =>
            (~threadsBool' /\ threadCount' = threadCount - 1
             /\ threadsActive' = threadsActive - 1)
       /\ (~threadsBool /\ threadCount = 0) =>
            (threadsBool' /\ threadCount' = threadCount + 1
             /\ threadsActive' = threadsActive + 1)]_vars

\* C5 as stated: with upperBound = 10, after exactly 10 calls of
\* updateThreadsActive the direction is descending and the count is 9.
C5_FlipOnTenthTick ==
  (cfg.ThreadsActiveUpperBound = 10 /\ threadsCalls = 10) =>
    (~threadsBool /\ threadCount = 9)

\* C5: with upperBound = 10, after exactly 10 calls of updateThreadsActive the
\* direction is still ascending and the count is 10; the 11th call flips the
\* direction and decrements, leaving descending and 9.
C5_FlipOnEleventhTick ==
  cfg.ThreadsActiveUpperBound = 10 =>
    /\ threadsCalls = 10 => (threadsBool /\ threadCount = 10)
    /\ threadsCalls = 11 => (~threadsBool /\ threadCount = 9)

C5_Witness ==
  /\ cfg.ThreadsActiveUpperBound = 10
  /\ threadsCalls = 11
  /\ ~threadsBool
  /\ threadCount = 9

\* C6: the request counter never decreases; two successive values observed
\* through GetApiRequest are in order, and the value a read returns lies
\* between the counter at the start of the read and the counter afterwards.
C6_MonotoneReads ==
  /\ [](/\ nObs >= 2 => prevObs <= lastObs
        /\ cbPc = "ObserveInt64" => (readLo <= readVal /\ readVal <= counter))
  /\ [][counter' >= counter]_vars

\* Two reads with an increment between them.
C6_Witness ==
  /\ nObs = 2
  /\ prevObs = 1
  /\ lastObs = 2

RandomInstruments == {"timeAlive", "cpuUsage", "totalHeapSize", "threadsActive"}

RegistrationMessage(inst) ==
  CASE inst = "timeAlive" -> ErrRegistering("TimeAlive")
    [] inst = "cpuUsage" -> ErrRegistering("CpuUsage")
    [] inst = "totalHeapSize" -> ErrRegistering("HeapSize")
    [] inst = "threadsActive" -> ErrRegistering("ThreadsActive")

\* The step just taken is the failed registration of inst.
RegistrationFails(inst) == inst \in failed' /\ inst \notin failed

LoggedAndContinues(inst) ==
  /\ RegistrationMessage(inst) \in logs'
  /\ ~aborted'
  /\ mainPc' # mainPc

\* C7 as stated: a failed registration of timeAlive, cpuUsage or totalHeapSize
\* is logged and the process continues; a failed registration of threadsActive
\* aborts the process.
C7_ThreadsActiveFatal ==
  [][/\ \A inst \in RandomInstruments \ {"threadsActive"} :
          RegistrationFails(inst) => LoggedAndContinues(inst)
     /\ RegistrationFails("threadsActive") => aborted']_vars

\* C7: a failed registration of any of timeAlive, cpuUsage, totalHeapSize and
\* threadsActive is only logged: the register function returns and main()
\* goes on to its next step.
C7_AllRegistrationsLogged ==
  [][\A inst \in RandomInstruments :
       RegistrationFails(inst) => LoggedAndContinues(inst)]_vars

\* All four registrations failed and the server is nevertheless serving.
C7_Witness ==
  /\ RandomInstruments \subseteq failed
  /\ \A inst \in RandomInstruments : RegistrationMessage(inst) \in logs
  /\ ~aborted
  /\ mainPc = "serving"

\* C8: the background loop calls updateTimeAlive once per iteration and each
\* call adds TimeAliveIncrementer * 1000, so after T iterations the timeAlive
\* sum is T * TimeAliveIncrementer * 1000, whatever TimeInterval is.
C8_TimeAlivePerTick ==
  /\ timeAliveCalls = ticks + (IF loopPc = "updateTimeAlive" THEN 0 ELSE 1)
  /\ timeAlive = timeAliveCalls * cfg.TimeAliveIncrementer * 1000

\* One iteration with an increment of 5 and an interval of 2 seconds.
C8_Witness ==
  /\ ticks = 1
  /\ loopPc = "updateTimeAlive"
  /\ cfg.TimeAliveIncrementer = 5
  /\ cfg.TimeInterval = 2
  /\ timeAlive = 5000

InRange(v, upper) == 0 <= v /\ v < upper

\* C9: every value handed to cpuUsage lies in [0, CpuUsageUpperBound), to
\* totalHeapSize in [0, TotalHeapSizeUpperBound), to totalBytesSent in
\* [0, 1024) and to latencyTime in [0, 512); the bytes-sent sum never
\* decreases.
C9_SampledInRange ==
  /\ [](/\ observation.inst = "cpuUsage" =>
             InRange(observation.value, cfg.CpuUsageUpperBound)
        /\ observation.inst = "totalHeapSize" =>
             InRange(observation.value, cfg.TotalHeapSizeUpperBound)
        /\ observation.inst = "totalBytesSent" =>
             InRange(observation.value, BytesSentMax)
        /\ observation.inst = "latencyTime" =>
             InRange(observation.value, LatencyMax))
  /\ [][/\ totalBytesSent' >= totalBytesSent
        /\ totalBytesSent' - totalBytesSent < BytesSentMax]_vars

\* The largest heap size of the range is observed after bytes were sent.
C9_Witness ==
  /\ observation = [inst |-> "totalHeapSize", value |-> cfg.TotalHeapSizeUpperBound - 1]
  /\ totalBytesSent >= BytesSentMax - 1
  /\ latencyRecords > 0

\* C10: the sum of the deltas added to the threadsActive instrument stays in
\* [0, upperBound] and exceeds threadCount by 0 or 1, for any upperBound >= 0.
C10_SinkFollowsCount ==
  /\ 0 <= threadsActive
  /\ threadsActive <= cfg.ThreadsActiveUpperBound
  /\ threadsActive - threadCount \in {0, 1}

\* A turning point has been passed: the instrument is one ahead of threadCount.
C10_Witness ==
  /\ cfg.ThreadsActiveUpperBound = 10
  /\ ~threadsBool
  /\ threadsActive = 10
  /\ threadCount = 9

\* The step just taken dispatched a request whose client.Do to aws.amazon.com
\* (OutgoingHttpCall, OutgoingPsqlCall, leaf branch of OutgoingSampleApp)
\* returned one of the given results.
ClientDoReturns(results) == started' = started + 1 /\ lastDo' \in results

\* The error is logged and the handler ends in a panic before the metric
\* calls: no context moves on, the counter, the bytes-sent sum and the latency
\* samples are as before and no trace id is written.
AbortsBeforeMetrics ==
  /\ ErrAmazon \in logs'
  /\ panics' = panics + 1
  /\ hpc' = hpc
  /\ counter' = counter
  /\ totalBytesSent' = totalBytesSent
  /\ latencyRecords' = latencyRecords
  /\ responses' = responses
  /\ completed' = completed

\* C11 as stated: whenever client.Do returns an error in OutgoingHttpCall,
\* OutgoingPsqlCall or the leaf branch of OutgoingSampleApp, the handler logs
\* it and aborts at the nil response before the metric calls, leaving the
\* counter, the bytes-sent sum and the latency samples unchanged and writing
\* no trace id.
C11_AnyErrorAborts ==
  [][ClientDoReturns({"nil+err", "res+err"}) => AbortsBeforeMetrics]_vars

\* C11: whenever client.Do returns an error and a nil response in
\* OutgoingHttpCall, OutgoingPsqlCall or the leaf branch of OutgoingSampleApp,
\* the handler logs it and aborts at the nil response before the metric calls,
\* leaving the counter, the bytes-sent sum and the latency samples unchanged
\* and writing no trace id.
C11_NilResponseAborts ==
  [][ClientDoReturns({"nil+err"}) => AbortsBeforeMetrics]_vars

\* The only request so far failed in client.Do: logged, panicked, not counted.
C11_Witness ==
  /\ lastDo = "nil+err"
  /\ started = 1
  /\ panics = 1
  /\ ErrAmazon \in logs
  /\ AllIdle
  /\ counter = 0
  /\ totalBytesSent = 0
  /\ latencyRecords = 0
  /\ responses = 0

====
